---- MODULE Spec2Model ----
(***************************************************************************)
(* Model of primekg_neo4j_preprocess.py: the token sanitizer clean_token,  *)
(* the key builder make_primekg_key, and the two streaming stages (nodes,  *)
(* relationships) with their output files and aggregate sets.              *)
(*                                                                         *)
(* Text is a sequence of one-character strings: "g/p" is <<"g","/","p">>.  *)
(* A missing value (pandas NaN) is the distinguished value NaN.            *)
(***************************************************************************)
EXTENDS Integers, Sequences, FiniteSets, TLC

\* ------------------------------------------------------------------ bounds
\* longest input string given to clean_token in SpecToken
MaxTokLen == 4
\* longest source / id string given to make_primekg_key in SpecKey
MaxKeyLen == 3
\* most data rows in a source file
MaxRows == 2
\* largest chunk size tried (the script's CHUNK_SIZE is one fixed choice)
MaxChunk == 2

\* ------------------------------------------------------- characters, text
Digits == {"0", "1", "2", "3", "4", "5", "6", "7", "8", "9"}

Letters ==
    {"a", "b", "c", "d", "e", "f", "g", "h", "i", "j", "k", "l", "m",
     "n", "o", "p", "q", "r", "s", "t", "u", "v", "w", "x", "y", "z",
     "A", "B", "C", "D", "E", "F", "G", "H", "I", "J", "K", "L", "M",
     "N", "O", "P", "Q", "R", "S", "T", "U", "V", "W", "X", "Y", "Z"}

\* what str.strip() with no argument removes
Whitespace == {" ", "\t", "\n"}

\* the characters the class [0-9A-Za-z_] accepts
TokenChars == Digits \cup Letters \cup {"_"}

\* pandas' missing value; no text equals it
NaN == <<"NaN">>

isna(x) == x = NaN

\* the text of a literal, written as its characters
T_ == <<"T", "_">>

NodeSuffix == <<";", "N", "o", "d", "e">>

RECURSIVE lstrip(_, _)
lstrip(s, chars) ==
    IF s # <<>> /\ Head(s) \in chars THEN lstrip(Tail(s), chars) ELSE s

RECURSIVE rstrip(_, _)
rstrip(s, chars) ==
    IF s # <<>> /\ s[Len(s)] \in chars
    THEN rstrip(SubSeq(s, 1, Len(s) - 1), chars)
    ELSE s

\* str.strip(chars)
strip(s, chars) == rstrip(lstrip(s, chars), chars)

\* the rest of s after its leading run of characters that are not in keep
RECURSIVE SkipRun(_, _)
SkipRun(s, keep) ==
    IF s # <<>> /\ Head(s) \notin keep THEN SkipRun(Tail(s), keep) ELSE s

\* _token_re.sub("_", x): every maximal run outside [0-9A-Za-z_] becomes "_"
RECURSIVE token_re_sub(_)
token_re_sub(s) ==
    IF s = <<>> THEN <<>>
    ELSE IF Head(s) \in TokenChars
         THEN <<Head(s)>> \o token_re_sub(Tail(s))
         ELSE <<"_">> \o token_re_sub(SkipRun(Tail(s), TokenChars))

\* re.sub(r"_+", "_", x): every run of underscores becomes one underscore
RECURSIVE underscore_re_sub(_)
underscore_re_sub(s) ==
    IF s = <<>> THEN <<>>
    ELSE IF Head(s) = "_"
         THEN <<"_">> \o underscore_re_sub(lstrip(Tail(s), {"_"}))
         ELSE <<Head(s)>> \o underscore_re_sub(Tail(s))

\* the value of x after lines 24-28 of clean_token
TokenCore(x) ==
    LET x0 == IF isna(x) THEN <<>> ELSE x
        x1 == strip(x0, Whitespace)
        x2 == token_re_sub(x1)
    IN  strip(underscore_re_sub(x2), {"_"})

\* line 29-30 without the test: the marker is put before every token
PrefixAlways(x) == T_ \o x

\* line 29 testing only for a leading digit
PrefixDigitOnly(x) == IF x # <<>> /\ x[1] \in Digits THEN T_ \o x ELSE x

\* lines 29-30 of clean_token
Prefix(x) == IF x = <<>> \/ x[1] \in Digits THEN T_ \o x ELSE x

clean_token(x) == Prefix(TokenCore(x))

\* make_primekg_key without the colon test of line 43
make_primekg_key_nocolon(node_source, node_id) ==
    LET s == IF isna(node_source) THEN <<>> ELSE strip(node_source, Whitespace)
        i == IF isna(node_id) THEN <<>> ELSE strip(node_id, Whitespace)
    IN  IF i = <<>> THEN <<>>
        ELSE IF s = <<>> THEN i
        ELSE s \o <<":">> \o i

make_primekg_key(node_source, node_id) ==
    LET s == IF isna(node_source) THEN <<>> ELSE strip(node_source, Whitespace)
        i == IF isna(node_id) THEN <<>> ELSE strip(node_id, Whitespace)
    IN  IF i = <<>> THEN <<>>
        ELSE IF \E k \in 1..Len(i) : i[k] = ":" THEN i
        ELSE IF s = <<>> THEN i
        ELSE s \o <<":">> \o i

\* all texts over alphabet of length at most n
RECURSIVE TextsUpTo(_, _)
TextsUpTo(alphabet, n) ==
    IF n = 0 THEN {<<>>}
    ELSE LET shorter == TextsUpTo(alphabet, n - 1)
         IN  shorter \cup {<<c>> \o t : c \in alphabet, t \in {u \in shorter : Len(u) = n - 1}}

\* all sequences over elems of length at most n
RECURSIVE SeqsUpTo(_, _)
SeqsUpTo(elems, n) ==
    IF n = 0 THEN {<<>>}
    ELSE LET shorter == SeqsUpTo(elems, n - 1)
         IN  shorter \cup {Append(t, e) : e \in elems, t \in {u \in shorter : Len(u) = n - 1}}

Min(a, b) == IF a <= b THEN a ELSE b

\* a column name, as one symbol
Name(s) == <<s>>

\* ------------------------------------------------------- source files
\* A source file is its data rows; a row is the tuple of its fields as
\* written in the file, the empty field being <<>>.  Fields are listed in
\* the order the stage selects them.  Every file has the columns the stages
\* select.
NodeWidth == 5
EdgeWidth == 4

\* node rows: node_index, node_id, node_source, node_type, node_name
NodeRows ==
    { << <<"1">>, <<"7">>, <<"S">>, <<"g", "/", "p">>, <<"n">> >>,
      << <<"2">>, <<"a", ":", "b">>, <<>>, <<"9">>, <<>> >>,
      << <<"3">>, <<"N", "A">>, <<"S">>, <<"g">>, <<"n">> >>,
      << <<>>, <<"D">>, <<"S">>, <<"g">>, <<"n">> >>,
      << <<"5">>, <<"D">>, <<"S">>, <<>>, <<"n">> >>,
      << <<"6">>, <<"D">>, <<"S">>, <<"g">>, <<"n">>, <<"x">> >> }

\* edge rows: x_index, y_index, relation, display_relation
EdgeRows ==
    { << <<"1">>, <<"2">>, <<"p", " ", "p">>, <<"d">> >>,
      << <<"2">>, <<"1">>, <<"0", "7">>, <<>> >>,
      << <<>>, <<"2">>, <<"r">>, <<"d">> >>,
      << <<"1">>, <<"2">>, <<>>, <<"d">> >>,
      << <<"1">>, <<>>, <<"r">>, <<"d">> >>,
      << <<"1">>, <<"2">>, <<"r">>, <<"d">>, <<"x">> >> }

NodeFiles ==
    {[exists |-> FALSE, rows |-> <<>>]}
        \cup {[exists |-> TRUE, rows |-> r] : r \in SeqsUpTo(NodeRows, MaxRows)}

EdgeFiles ==
    {[exists |-> FALSE, rows |-> <<>>]}
        \cup {[exists |-> TRUE, rows |-> r] : r \in SeqsUpTo(EdgeRows, MaxRows)}

\* ------------------------------------------------------- pandas.read_csv
\* the rows the reader hands out next: at most size rows from position pos
ReadChunk(rows, pos, size) == SubSeq(rows, pos + 1, Min(pos + size, Len(rows)))

\* a row with more fields than the header makes the tokenizer raise
Malformed(chunk, width) == \E k \in 1..Len(chunk) : Len(chunk[k]) > width

\* a reader hands out one (empty) chunk for a file without data rows, and
\* otherwise chunks until the rows are used up
MoreChunks(reader, rows) == reader.first \/ reader.pos < Len(rows)

\* the fields read_csv takes for a missing value (keep_default_na): the
\* empty field and the default markers
NaFields ==
    { <<>>, <<"N", "A">>, <<"N", "a", "N">>, <<"n", "a", "n">>, <<"n", "u", "l", "l">>,
      <<"N", "U", "L", "L">>, <<"N", "o", "n", "e">>, <<"N", "/", "A">>, <<"n", "/", "a">>,
      <<"#", "N", "/", "A">>, <<"#", "N", "A">>, <<"<", "N", "A", ">">>,
      <<"-", "N", "a", "N">>, <<"-", "n", "a", "n">> }

IsIntLit(s) == s # <<>> /\ \A k \in 1..Len(s) : s[k] \in Digits

\* str() of the integer a literal denotes: leading zeros are gone
IntText(s) == LET t == lstrip(s, {"0"}) IN IF t = <<>> THEN <<"0">> ELSE t

\* str() of the float64 an integer literal is read as
FloatText(s) == IntText(s) \o <<".", "0">>

\* One column of one chunk, each value as str() of what the reader made
\* of it.  A missing field is NaN.  The dtype is inferred from this chunk
\* alone: all fields integer literals gives int64, integer literals and
\* missing fields give float64, anything else keeps the text (object).
ParseColumn(cells) ==
    LET present == {k \in 1..Len(cells) : cells[k] \notin NaFields}
        numeric == present # {} /\ \A k \in present : IsIntLit(cells[k])
        complete == present = 1..Len(cells)
    IN  [k \in 1..Len(cells) |->
            IF cells[k] \in NaFields THEN NaN
            ELSE IF ~numeric THEN cells[k]
            ELSE IF complete THEN IntText(cells[k])
            ELSE FloatText(cells[k])]

\* the DataFrame of one chunk: its rows, each the tuple of its parsed values
ParseChunk(chunk, width) ==
    LET col(j) == ParseColumn([k \in 1..Len(chunk) |-> chunk[k][j]])
    IN  [k \in 1..Len(chunk) |-> [j \in 1..width |-> col(j)[k]]]

\* ------------------------------------------------------- DataFrame.to_csv
\* a value as to_csv writes it: NaN is the empty field
CsvField(v) == IF isna(v) THEN <<>> ELSE v

to_csv(df, header_line, header) ==
    (IF header THEN <<header_line>> ELSE <<>>)
        \o [k \in 1..Len(df) |-> [j \in 1..Len(df[k]) |-> CsvField(df[k][j])]]

\* ------------------------------------------------------- nodes stage
NodesHeader ==
    << Name("node_index:ID"), Name("node_id"), Name("node_source"),
       Name("node_type"), Name("node_name"), Name("primekg_key"), Name(":LABEL") >>

\* the validation forgetting node_type
NodeRowKeptNoType(r) == ~isna(r[1]) /\ ~isna(r[2])

\* dropna(subset=["node_index", "node_id", "node_type"]) keeps this row
NodeRowKept(r) == ~isna(r[1]) /\ ~isna(r[2]) /\ ~isna(r[4])

\* df[":LABEL"] of a row
NodeLabel(r) == clean_token(r[4]) \o NodeSuffix

\* The node_type column of a chunk with data rows is not text (float64 or
\* int64) and no row is kept.  Series.map then yields either an empty column
\* of that numeric dtype, on which + ";Node" raises TypeError, or an empty
\* text column, depending on the pandas release.
EmptyNumericLabels(chunk) ==
    /\ chunk # <<>>
    /\ SelectSeq(ParseChunk(chunk, NodeWidth), NodeRowKept) = <<>>
    /\ \A k \in 1..Len(chunk) : chunk[k][4] \in NaFields \/ IsIntLit(chunk[k][4])

\* the frame written for one chunk: the kept rows with primekg_key and :LABEL
NodesFrame(chunk) ==
    LET df == SelectSeq(ParseChunk(chunk, NodeWidth), NodeRowKept)
    IN  [k \in 1..Len(df) |->
            df[k] \o << make_primekg_key(df[k][3], df[k][2]), NodeLabel(df[k]) >>]

\* df["_base_label"].unique() of one chunk
NodesBaseLabels(chunk) ==
    LET df == SelectSeq(ParseChunk(chunk, NodeWidth), NodeRowKept)
    IN  {clean_token(df[k][4]) : k \in 1..Len(df)}

\* ------------------------------------------------------- relationships stage
RelsHeader ==
    << Name(":START_ID"), Name(":END_ID"), Name(":TYPE"),
       Name("relation"), Name("display_relation") >>

\* dropna(subset=["x_index", "y_index", "relation"]) keeps this row
RelRowKept(r) == ~isna(r[1]) /\ ~isna(r[2]) /\ ~isna(r[3])

\* the frame written for one chunk, in the order of line 128
RelsFrame(chunk) ==
    LET df == SelectSeq(ParseChunk(chunk, EdgeWidth), RelRowKept)
    IN  [k \in 1..Len(df) |->
            << df[k][1], df[k][2], clean_token(df[k][3]), df[k][3], df[k][4] >>]

\* df[":TYPE"].unique() of one chunk
RelsTypes(chunk) ==
    LET df == SelectSeq(ParseChunk(chunk, EdgeWidth), RelRowKept)
    IN  {clean_token(df[k][3]) : k \in 1..Len(df)}

\* ------------------------------------------------------- state
VARIABLES
    nodes_file,        \* the file at NODES_PATH
    edges_file,        \* the file at EDGES_PATH
    chunksize,         \* CHUNK_SIZE
    pc,                \* the statement the script is at
    raised,            \* where the unhandled exception came from, "" if none
    nodes_reader,      \* nodes_reader: rows handed out, and whether none was yet
    rels_reader,       \* rels_reader
    out_nodes,         \* the file OUT_NODES: opened by this run, and its lines
    out_rels,          \* the file OUT_RELS
    header_written,    \* header_written of the stage that is running
    labels_base_seen,  \* labels_base_seen
    types_seen,        \* types_seen
    summary,           \* the two counts printed, <<>> before
    fn_pc,             \* a call of a helper on its own: what has been computed
    fn_x,              \* its first argument
    fn_y,              \* its second argument
    fn_r,              \* its result
    fn_rr              \* the result of applying it to its result

run_vars ==
    << nodes_file, edges_file, chunksize, pc, raised, nodes_reader, rels_reader,
       out_nodes, out_rels, header_written, labels_base_seen, types_seen, summary >>

fn_vars == << fn_pc, fn_x, fn_y, fn_r, fn_rr >>

vars == << run_vars, fn_vars >>

NewReader == [pos |-> 0, first |-> TRUE]

NoFile == [opened |-> FALSE, lines |-> <<>>]

\* the script before its first statement, the source files not yet chosen
RunIdle ==
    /\ pc = "nodes_reader"
    /\ raised = ""
    /\ nodes_reader = NewReader
    /\ rels_reader = NewReader
    /\ out_nodes = NoFile
    /\ out_rels = NoFile
    /\ header_written = FALSE
    /\ labels_base_seen = {}
    /\ types_seen = {}
    /\ summary = <<>>

FnIdle ==
    /\ fn_pc = "idle"
    /\ fn_x = <<>>
    /\ fn_y = <<>>
    /\ fn_r = <<>>
    /\ fn_rr = <<>>

Init ==
    /\ nodes_file \in NodeFiles
    /\ edges_file \in EdgeFiles
    /\ chunksize \in 1..MaxChunk
    /\ RunIdle
    /\ FnIdle

\* ------------------------------------------------------- the script
\* the exception handled by deleting what the run wrote
AbortCleanup(where) ==
    /\ pc' = "aborted"
    /\ raised' = where
    /\ out_nodes' = NoFile
    /\ out_rels' = NoFile

\* the exception leaves the script; an open output file is closed as it is
Abort(where) ==
    /\ pc' = "aborted"
    /\ raised' = where
    /\ UNCHANGED << out_nodes, out_rels >>

\* pd.read_csv(NODES_PATH, ...) opens the file
NodesReader ==
    /\ pc = "nodes_reader"
    /\ nodes_file.exists
    /\ nodes_reader' = NewReader
    /\ pc' = "nodes_open"
    /\ UNCHANGED << nodes_file, edges_file, chunksize, raised, rels_reader, out_nodes,
                    out_rels, header_written, labels_base_seen, types_seen, summary >>
    /\ UNCHANGED fn_vars

\* the output file opened before the reader is made
NodesReaderFailOpened ==
    /\ pc = "nodes_reader"
    /\ ~nodes_file.exists
    /\ pc' = "aborted"
    /\ raised' = "nodes_reader"
    /\ out_nodes' = [opened |-> TRUE, lines |-> <<>>]
    /\ UNCHANGED << nodes_file, edges_file, chunksize, nodes_reader, rels_reader, out_rels,
                    header_written, labels_base_seen, types_seen, summary >>
    /\ UNCHANGED fn_vars

\* pd.read_csv(NODES_PATH, ...) raises: the file cannot be opened
NodesReaderFail ==
    /\ pc = "nodes_reader"
    /\ ~nodes_file.exists
    /\ Abort("nodes_reader")
    /\ UNCHANGED << nodes_file, edges_file, chunksize, nodes_reader, rels_reader,
                    header_written, labels_base_seen, types_seen, summary >>
    /\ UNCHANGED fn_vars

\* with open(OUT_NODES, "w") as f_out: header_written = False
NodesOpen ==
    /\ pc = "nodes_open"
    /\ out_nodes' = [opened |-> TRUE, lines |-> <<>>]
    /\ header_written' = FALSE
    /\ pc' = "nodes_loop"
    /\ UNCHANGED << nodes_file, edges_file, chunksize, raised, nodes_reader, rels_reader,
                    out_rels, labels_base_seen, types_seen, summary >>
    /\ UNCHANGED fn_vars

\* to_csv(..., header=True) for every chunk
NodesWriteHeaderAlways(chunk) ==
    out_nodes' = [out_nodes EXCEPT !.lines = @ \o to_csv(NodesFrame(chunk), NodesHeader, TRUE)]

\* df.to_csv(f_out, index=False, header=(not header_written))
NodesWrite(chunk) ==
    out_nodes' = [out_nodes EXCEPT
                    !.lines = @ \o to_csv(NodesFrame(chunk), NodesHeader, ~header_written)]

\* one turn of the nodes loop
NodesChunk ==
    /\ pc = "nodes_loop"
    /\ MoreChunks(nodes_reader, nodes_file.rows)
    /\ LET chunk == ReadChunk(nodes_file.rows, nodes_reader.pos, chunksize)
       IN  /\ ~Malformed(chunk, NodeWidth)
           /\ nodes_reader' = [pos |-> nodes_reader.pos + Len(chunk), first |-> FALSE]
           /\ labels_base_seen' = labels_base_seen \cup NodesBaseLabels(chunk)
           /\ NodesWrite(chunk)
           /\ header_written' = TRUE
    /\ UNCHANGED << nodes_file, edges_file, chunksize, pc, raised, rels_reader,
                    out_rels, types_seen, summary >>
    /\ UNCHANGED fn_vars

\* the reader raises on the chunk it is asked for
NodesChunkFail ==
    /\ pc = "nodes_loop"
    /\ MoreChunks(nodes_reader, nodes_file.rows)
    /\ Malformed(ReadChunk(nodes_file.rows, nodes_reader.pos, chunksize), NodeWidth)
    /\ Abort("nodes_chunk")
    /\ UNCHANGED << nodes_file, edges_file, chunksize, nodes_reader, rels_reader,
                    header_written, labels_base_seen, types_seen, summary >>
    /\ UNCHANGED fn_vars

\* df["_base_label"] + ";Node" raises on an empty numeric column
NodesLabelFail ==
    /\ pc = "nodes_loop"
    /\ MoreChunks(nodes_reader, nodes_file.rows)
    /\ LET chunk == ReadChunk(nodes_file.rows, nodes_reader.pos, chunksize)
       IN  ~Malformed(chunk, NodeWidth) /\ EmptyNumericLabels(chunk)
    /\ Abort("nodes_label")
    /\ UNCHANGED << nodes_file, edges_file, chunksize, nodes_reader, rels_reader,
                    header_written, labels_base_seen, types_seen, summary >>
    /\ UNCHANGED fn_vars

\* the nodes loop ends, the file is closed; types_seen = set()
NodesEnd ==
    /\ pc = "nodes_loop"
    /\ ~MoreChunks(nodes_reader, nodes_file.rows)
    /\ types_seen' = {}
    /\ pc' = "rels_reader"
    /\ UNCHANGED << nodes_file, edges_file, chunksize, raised, nodes_reader, rels_reader,
                    out_nodes, out_rels, header_written, labels_base_seen, summary >>
    /\ UNCHANGED fn_vars

\* pd.read_csv(EDGES_PATH, ...) opens the file
RelsReader ==
    /\ pc = "rels_reader"
    /\ edges_file.exists
    /\ rels_reader' = NewReader
    /\ pc' = "rels_open"
    /\ UNCHANGED << nodes_file, edges_file, chunksize, raised, nodes_reader, out_nodes,
                    out_rels, header_written, labels_base_seen, types_seen, summary >>
    /\ UNCHANGED fn_vars

\* pd.read_csv(EDGES_PATH, ...) raises: the file cannot be opened
RelsReaderFail ==
    /\ pc = "rels_reader"
    /\ ~edges_file.exists
    /\ Abort("rels_reader")
    /\ UNCHANGED << nodes_file, edges_file, chunksize, nodes_reader, rels_reader,
                    header_written, labels_base_seen, types_seen, summary >>
    /\ UNCHANGED fn_vars

\* with open(OUT_RELS, "w") as f_out: header_written = False
RelsOpen ==
    /\ pc = "rels_open"
    /\ out_rels' = [opened |-> TRUE, lines |-> <<>>]
    /\ header_written' = FALSE
    /\ pc' = "rels_loop"
    /\ UNCHANGED << nodes_file, edges_file, chunksize, raised, nodes_reader, rels_reader,
                    out_nodes, labels_base_seen, types_seen, summary >>
    /\ UNCHANGED fn_vars

\* one turn of the relationships loop writing to the nodes aggregate
RelsChunkSharedSet ==
    /\ pc = "rels_loop"
    /\ MoreChunks(rels_reader, edges_file.rows)
    /\ LET chunk == ReadChunk(edges_file.rows, rels_reader.pos, chunksize)
       IN  /\ ~Malformed(chunk, EdgeWidth)
           /\ rels_reader' = [pos |-> rels_reader.pos + Len(chunk), first |-> FALSE]
           /\ labels_base_seen' = labels_base_seen \cup RelsTypes(chunk)
           /\ out_rels' = [out_rels EXCEPT
                             !.lines = @ \o to_csv(RelsFrame(chunk), RelsHeader, ~header_written)]
           /\ header_written' = TRUE
    /\ UNCHANGED << nodes_file, edges_file, chunksize, pc, raised, nodes_reader,
                    out_nodes, types_seen, summary >>
    /\ UNCHANGED fn_vars

\* one turn of the relationships loop
RelsChunk ==
    /\ pc = "rels_loop"
    /\ MoreChunks(rels_reader, edges_file.rows)
    /\ LET chunk == ReadChunk(edges_file.rows, rels_reader.pos, chunksize)
       IN  /\ ~Malformed(chunk, EdgeWidth)
           /\ rels_reader' = [pos |-> rels_reader.pos + Len(chunk), first |-> FALSE]
           /\ types_seen' = types_seen \cup RelsTypes(chunk)
           /\ out_rels' = [out_rels EXCEPT
                             !.lines = @ \o to_csv(RelsFrame(chunk), RelsHeader, ~header_written)]
           /\ header_written' = TRUE
    /\ UNCHANGED << nodes_file, edges_file, chunksize, pc, raised, nodes_reader,
                    out_nodes, labels_base_seen, summary >>
    /\ UNCHANGED fn_vars

\* the reader raises on the chunk it is asked for
RelsChunkFail ==
    /\ pc = "rels_loop"
    /\ MoreChunks(rels_reader, edges_file.rows)
    /\ Malformed(ReadChunk(edges_file.rows, rels_reader.pos, chunksize), EdgeWidth)
    /\ Abort("rels_chunk")
    /\ UNCHANGED << nodes_file, edges_file, chunksize, nodes_reader, rels_reader,
                    header_written, labels_base_seen, types_seen, summary >>
    /\ UNCHANGED fn_vars

\* the relationships loop ends, the file is closed
RelsEnd ==
    /\ pc = "rels_loop"
    /\ ~MoreChunks(rels_reader, edges_file.rows)
    /\ pc' = "summary"
    /\ UNCHANGED << nodes_file, edges_file, chunksize, raised, nodes_reader, rels_reader,
                    out_nodes, out_rels, header_written, labels_base_seen, types_seen,
                    summary >>
    /\ UNCHANGED fn_vars

\* the four print statements: the two counts
Summary ==
    /\ pc = "summary"
    /\ summary' = << Cardinality(labels_base_seen), Cardinality(types_seen) >>
    /\ pc' = "done"
    /\ UNCHANGED << nodes_file, edges_file, chunksize, raised, nodes_reader, rels_reader,
                    out_nodes, out_rels, header_written, labels_base_seen, types_seen >>
    /\ UNCHANGED fn_vars

Next ==
    \/ NodesReader
    \/ NodesReaderFail
    \/ NodesOpen
    \/ NodesChunk
    \/ NodesChunkFail
    \/ NodesLabelFail
    \/ NodesEnd
    \/ RelsReader
    \/ RelsReaderFail
    \/ RelsOpen
    \/ RelsChunk
    \/ RelsChunkFail
    \/ RelsEnd
    \/ Summary

Spec == Init /\ [][Next]_vars

\* ------------------------------------------------------- the helpers alone
\* The script at rest while a helper is called on an argument of its domain.
RunAtRest ==
    /\ nodes_file = [exists |-> FALSE, rows |-> <<>>]
    /\ edges_file = [exists |-> FALSE, rows |-> <<>>]
    /\ chunksize = 1
    /\ RunIdle

TokenAlphabet == {"a", "T", "1", "_", "/", " "}

TokenInputs == TextsUpTo(TokenAlphabet, MaxTokLen) \cup {NaN}

InitToken ==
    /\ RunAtRest
    /\ fn_pc = "arg"
    /\ fn_x \in TokenInputs
    /\ fn_y = <<>>
    /\ fn_r = <<>>
    /\ fn_rr = <<>>

\* r = clean_token(x)
CallCleanToken ==
    /\ fn_pc = "arg"
    /\ fn_r' = clean_token(fn_x)
    /\ fn_pc' = "once"
    /\ UNCHANGED << fn_x, fn_y, fn_rr >>
    /\ UNCHANGED run_vars

\* rr = clean_token(r)
CallCleanTokenAgain ==
    /\ fn_pc = "once"
    /\ fn_rr' = clean_token(fn_r)
    /\ fn_pc' = "twice"
    /\ UNCHANGED << fn_x, fn_y, fn_r >>
    /\ UNCHANGED run_vars

NextToken ==
    \/ CallCleanToken
    \/ CallCleanTokenAgain

SpecToken == InitToken /\ [][NextToken]_vars

KeyAlphabet == {"s", ":", " "}

KeyInputs == TextsUpTo(KeyAlphabet, MaxKeyLen) \cup {NaN}

InitKey ==
    /\ RunAtRest
    /\ fn_pc = "arg"
    /\ fn_x \in KeyInputs
    /\ fn_y \in KeyInputs
    /\ fn_r = <<>>
    /\ fn_rr = <<>>

\* r = make_primekg_key(x, y)
CallMakeKey ==
    /\ fn_pc = "arg"
    /\ fn_r' = make_primekg_key(fn_x, fn_y)
    /\ fn_pc' = "once"
    /\ UNCHANGED << fn_x, fn_y, fn_rr >>
    /\ UNCHANGED run_vars

NextKey == CallMakeKey

SpecKey == InitKey /\ [][NextKey]_vars

\* ------------------------------------------------------- a stage as a whole
\* the lines a nodes stage that runs to its end writes, reading rows in
\* chunks of size
RECURSIVE NodesOutputFrom(_, _, _)
NodesOutputFrom(rows, reader, size) ==
    IF ~MoreChunks(reader, rows) THEN <<>>
    ELSE LET chunk == ReadChunk(rows, reader.pos, size)
         IN  to_csv(NodesFrame(chunk), NodesHeader, reader.first)
                \o NodesOutputFrom(rows, [pos |-> reader.pos + Len(chunk), first |-> FALSE], size)

NodesOutput(rows, size) == NodesOutputFrom(rows, NewReader, size)

RECURSIVE RelsOutputFrom(_, _, _)
RelsOutputFrom(rows, reader, size) ==
    IF ~MoreChunks(reader, rows) THEN <<>>
    ELSE LET chunk == ReadChunk(rows, reader.pos, size)
         IN  to_csv(RelsFrame(chunk), RelsHeader, reader.first)
                \o RelsOutputFrom(rows, [pos |-> reader.pos + Len(chunk), first |-> FALSE], size)

RelsOutput(rows, size) == RelsOutputFrom(rows, NewReader, size)

\* ------------------------------------------------------- claims
IsToken(t) ==
    /\ t # <<>>
    /\ t[1] \in Letters \cup {"_"}
    /\ \A k \in 1..Len(t) : t[k] \in TokenChars

HasAlnum(x) == ~isna(x) /\ \E k \in 1..Len(x) : x[k] \in Letters \cup Digits

\* C1: whatever the input (missing, empty, blank, digit-leading, all
\* punctuation), clean_token returns a non-empty string matching
\* [A-Za-z_][A-Za-z0-9_]*.
C1_TokenShape == fn_pc \in {"once", "twice"} => IsToken(fn_r)

\* an input of punctuation and blanks only has been sanitized
C1_Witness == fn_pc = "once" /\ fn_x # <<>> /\ ~HasAlnum(fn_x) /\ ~isna(fn_x)

\* C2 as stated: clean_token(clean_token(s)) = clean_token(s) for every s.
C2_Idempotent == fn_pc = "twice" => fn_rr = fn_r

\* C2 amended: clean_token(clean_token(s)) = clean_token(s) for every s that
\* holds an ASCII letter or digit (digit-leading s included); for every other
\* s (missing, empty, only blanks, punctuation or underscores) the first
\* result is "T_" and the second is "T".
C2_IdempotentOnAlnum ==
    fn_pc = "twice" =>
        IF HasAlnum(fn_x) THEN fn_rr = fn_r
        ELSE fn_r = <<"T", "_">> /\ fn_rr = <<"T">>

\* a digit-leading input has been sanitized twice
C2_Witness ==
    /\ fn_pc = "twice"
    /\ fn_x # <<>> /\ ~isna(fn_x) /\ fn_x[1] \in Digits
    /\ fn_r = T_ \o fn_x

Trimmed(v) == IF isna(v) THEN <<>> ELSE strip(v, Whitespace)

HasColon(t) == \E k \in 1..Len(t) : t[k] = ":"

\* C3: with null as empty and both trimmed, make_primekg_key gives "" for an
\* empty id, else the id itself if it holds a colon, else the id alone if the
\* source is empty, else source ":" id.
C3_KeyCases ==
    fn_pc = "once" =>
        LET s == Trimmed(fn_x)
            i == Trimmed(fn_y)
        IN  /\ i = <<>> => fn_r = <<>>
            /\ i # <<>> /\ HasColon(i) => fn_r = i
            /\ i # <<>> /\ ~HasColon(i) /\ s = <<>> => fn_r = i
            /\ i # <<>> /\ ~HasColon(i) /\ s # <<>> =>
                  /\ Len(fn_r) = Len(s) + 1 + Len(i)
                  /\ SubSeq(fn_r, 1, Len(s)) = s
                  /\ fn_r[Len(s) + 1] = ":"
                  /\ SubSeq(fn_r, Len(s) + 2, Len(fn_r)) = i

\* a key was built from a source and an id that holds a colon and blanks
C3_Witness ==
    /\ fn_pc = "once"
    /\ Trimmed(fn_x) # <<>>
    /\ ~isna(fn_y) /\ HasColon(fn_y) /\ Trimmed(fn_y) # fn_y
    /\ fn_r = Trimmed(fn_y)

\* the rows the reader has handed out so far
NodesRead == SubSeq(nodes_file.rows, 1, nodes_reader.pos)

RelsRead == SubSeq(edges_file.rows, 1, rels_reader.pos)

IsNodeData(line) == line # NodesHeader

IsRelData(line) == line # RelsHeader

NodeData == SelectSeq(out_nodes.lines, IsNodeData)

RelData == SelectSeq(out_rels.lines, IsRelData)

\* a row of the nodes file with node_index, node_id and node_type present
NodePresent(r) == r[1] \notin NaFields /\ r[2] \notin NaFields /\ r[4] \notin NaFields

\* a row of the edges file with x_index, y_index and relation present
RelPresent(r) == r[1] \notin NaFields /\ r[2] \notin NaFields /\ r[3] \notin NaFields

\* the written field out is the field in of the source file: the same text,
\* or the same number written as an integer or a float; a missing field is
\* written empty
SameField(out, in) ==
    IF in \in NaFields THEN out = <<>>
    ELSE \/ out = in
         \/ IsIntLit(in) /\ out \in {IntText(in), FloatText(in)}

HeaderFirstOnly(lines, header) ==
    lines # <<>> => lines[1] = header /\ \A k \in 2..Len(lines) : lines[k] # header

\* C5: once a stage has written its first batch, the header is the first line
\* of its output file and appears nowhere else, however many batches follow
\* and also when the first batch keeps no row; before the first batch the file
\* is empty.
C5_HeaderOnce ==
    /\ HeaderFirstOnly(out_nodes.lines, NodesHeader)
    /\ HeaderFirstOnly(out_rels.lines, RelsHeader)
    /\ out_nodes.lines # <<>> <=> ~nodes_reader.first
    /\ out_rels.lines # <<>> <=> ~rels_reader.first

\* two batches of one row were written, the first keeping no row
C5_Witness ==
    /\ pc = "rels_reader"
    /\ chunksize = 1
    /\ Len(nodes_file.rows) = 2
    /\ ~NodePresent(nodes_file.rows[1])
    /\ Len(out_nodes.lines) = 2

\* C6: a run that completes writes the files that a run with any other
\* batch size writes for the same source files.
C6_BatchSizeIrrelevant ==
    pc = "done" =>
        \A size \in 1..MaxChunk :
            /\ out_nodes.lines = NodesOutput(nodes_file.rows, size)
            /\ out_rels.lines = RelsOutput(edges_file.rows, size)

\* C7 as stated: when a source file cannot be opened, no output file has
\* been created, truncated or written.
C7_NoOutputAtAll ==
    raised \in {"nodes_reader", "rels_reader"} => ~out_nodes.opened /\ ~out_rels.opened

\* C7 amended: when a source file cannot be opened, the run aborts before the
\* output file of that stage is created, truncated or written; for the node
\* source no output file has been touched, for the edge source the nodes
\* output has already been written in full.
C7_NoOutputOfThatStage ==
    /\ raised = "nodes_reader" => ~out_nodes.opened /\ ~out_rels.opened
    /\ raised = "rels_reader" =>
          /\ ~out_rels.opened
          /\ out_nodes.opened
          /\ out_nodes.lines = NodesOutput(nodes_file.rows, chunksize)

\* the edges file is missing after a nodes stage that wrote rows
C7_Witness == raised = "rels_reader" /\ Len(out_nodes.lines) > 1

\* what the batches completed so far have written
NodesWritten ==
    IF nodes_reader.first THEN <<>> ELSE NodesOutput(NodesRead, chunksize)

RelsWritten ==
    IF rels_reader.first THEN <<>> ELSE RelsOutput(RelsRead, chunksize)

\* C8 as stated: after a failure in a batch of the relationships stage, the
\* nodes output is what the completed nodes stage wrote and the relationships
\* output holds the header and the rows of the batches completed before.
C8_HeaderAndCompleted ==
    raised = "rels_chunk" =>
        /\ out_nodes.lines = NodesOutput(nodes_file.rows, chunksize)
        /\ out_rels.lines = <<RelsHeader>> \o SelectSeq(RelsWritten, IsRelData)

\* C8 amended: after a failure in a batch, the nodes output of a completed
\* nodes stage is intact and the failing stage's file holds exactly what the
\* batches completed before wrote: the header and their rows, or nothing at
\* all (no header) when the first batch failed.
C8_CompletedBatchesStay ==
    /\ raised \in {"nodes_chunk", "nodes_label"} =>
          /\ out_nodes.opened /\ out_nodes.lines = NodesWritten
          /\ ~out_rels.opened
    /\ raised = "rels_chunk" =>
          /\ out_nodes.opened /\ out_nodes.lines = NodesOutput(nodes_file.rows, chunksize)
          /\ out_rels.opened /\ out_rels.lines = RelsWritten

\* the second batch of the relationships stage failed after a first that wrote a row
C8_Witness ==
    /\ raised = "rels_chunk"
    /\ Len(out_rels.lines) = 2
    /\ Len(out_nodes.lines) > 1

\* C9: the label of every written node row is clean_token of that row's
\* node_type followed by ";Node"; the type of every written edge row is
\* clean_token of that row's relation, and its relation column is the
\* relation of the source row, verbatim.
C9_LabelAndType ==
    LET nodes == SelectSeq(NodesRead, NodePresent)
        rels == SelectSeq(RelsRead, RelPresent)
    IN  /\ \A k \in 1..Len(NodeData) :
              NodeData[k][7] = clean_token(nodes[k][4]) \o NodeSuffix
        /\ \A k \in 1..Len(RelData) :
              /\ RelData[k][3] = clean_token(rels[k][3])
              /\ RelData[k][4] = rels[k][3]

NodeStagePcs == {"nodes_reader", "nodes_open", "nodes_loop"}

RelStagePcs == {"rels_reader", "rels_open", "rels_loop"}

\* each aggregate is the set of the tokens of the rows its stage has written
AggregatesMatch ==
    /\ labels_base_seen = {clean_token(NodeData[k][4]) : k \in 1..Len(NodeData)}
    /\ types_seen = {clean_token(RelData[k][4]) : k \in 1..Len(RelData)}

\* the counts are printed only at the end, and are the sizes of the two sets
SummaryAtEnd ==
    summary # <<>> =>
        /\ pc = "done"
        /\ summary = << Cardinality(labels_base_seen), Cardinality(types_seen) >>

\* a step only adds to an aggregate, and only to the one of the stage it is in
AggregatesGrow ==
    /\ labels_base_seen \subseteq labels_base_seen'
    /\ types_seen \subseteq types_seen'
    /\ pc \notin NodeStagePcs => labels_base_seen' = labels_base_seen
    /\ pc \notin RelStagePcs => types_seen' = types_seen

\* C10: after every batch the node-label set is the set of sanitized
\* node_type tokens of the node rows written so far and the edge-type set
\* that of the relation tokens of the edge rows written so far; each set only
\* grows and is written only in its own stage; the summary is printed only
\* after both stages and reports the sizes of the two sets.
C10_Aggregates == [](AggregatesMatch /\ SummaryAtEnd) /\ [][AggregatesGrow]_vars

\* the summary was printed after both stages wrote rows
C10_Witness ==
    /\ pc = "done"
    /\ summary = <<2, 1>>
    /\ labels_base_seen # types_seen
====
